---- MODULE Spec2Model ----
(***************************************************************************)
(* Admissions database (src/database.py): the DatabaseManager's store      *)
(* (programs, applicants, applications behind one sqlite3 connection),     *)
(* add_program, load_list_from_dataframe (reconciliation of one            *)
(* programme/day list) and compute_passing_scores (the cascade pass).      *)
(*                                                                         *)
(* Four specifications share the variables:                                *)
(*   Spec      - the store operations, started from the empty database;    *)
(*   SpecAlloc - the cascade pass, row by row, started from any store the  *)
(*               operations can build within the bounds;                   *)
(*   SpecConc  - load_list_from_dataframe statement by statement on two    *)
(*               DatabaseManagers (two sqlite3 connections) of one file;   *)
(*   SpecDay   - loads and cascade passes interleaved on one store.        *)
(***************************************************************************)
EXTENDS Integers, Sequences, FiniteSets, TLC

\* ------------------------------------------------------------------ bounds
\* Largest seat quota passed to add_program.
MaxSeats == 2
\* Longest dataframe passed to load_list_from_dataframe.
MaxLen == 2
\* Number of load_list_from_dataframe calls in one behaviour of Spec.
MaxCalls == 2
\* Number of application rows in a store SpecAlloc starts from.
MaxApps == 3

\* ------------------------------------------------------------- input sets
ProgramNames == {"ProgA", "ProgB"}
Days == {"01.08", "02.08"}
ApplicantIds == 1..3
\* Applicant ids occurring in the dataframes of Spec.
ListIds == 1..2
\* A scarce and a large seat quota: the quotas add_program is called with
\* in Spec, and the quotas of the second programme in SpecAlloc (the first
\* programme takes every quota from 0 to MaxSeats).
SeatChoices == {1, MaxSeats}
\* A dataframe cell that int() / astype(int) rejects (a NaN, a non-numeric
\* string).  Well-formed cells are the naturals.
NaN == -1

\* int(cell) succeeds on well-formed cells only and raises ValueError on
\* the others; on an integer cell it returns the cell.
IsInt(cell) == cell # NaN
IntCast(cell) == cell

\* One dataframe row with the eight columns the loader reads.
Row(id, consent, priority, physics, russian, math, achievements, total) ==
    [ID |-> id, Consent |-> consent, Priority |-> priority, Physics |-> physics,
     Russian |-> russian, Math |-> math, Achievements |-> achievements,
     Total |-> total]

\* The rows of Spec's dataframes: for each id a consenting first-priority
\* row, a non-consenting second-priority row with other scores, and a row
\* whose Consent cell is malformed; and one row whose ID cell is malformed.
DataRows ==
    UNION {{Row(id, 1, 1, 1, 2, 3, 4, 10),
            Row(id, 0, 2, 5, 6, 7, 8, 26),
            Row(id, NaN, 1, 1, 2, 3, 4, 10)} : id \in ListIds}
    \cup {Row(NaN, 1, 1, 1, 2, 3, 4, 10)}

SeqsUpTo(S, n) == UNION {[1..k -> S] : k \in 0..n}
DataFrames == SeqsUpTo(DataRows, MaxLen)

\* ------------------------------------------------------------------ state
VARIABLES
    programs,        \* table programs: sequence of [name, seats]; id = position
    applicants,      \* table applicants: set of ids
    applications,    \* table applications as the connection reads it
    durable,         \* table applications as of the last commit
    call,            \* the last call made on the DatabaseManager and its outcome
    ncalls,          \* number of load_list_from_dataframe calls made
    pc,              \* compute_passing_scores: "idle", "loop" or "done"
    cday,            \* compute_passing_scores: its day argument
    rows,            \* compute_passing_scores: fetched rows not yet examined
    prog_info,       \* compute_passing_scores: program id -> admitted list
    admitted_global, \* compute_passing_scores: ids admitted anywhere
    result,          \* compute_passing_scores: name -> [score, admitted]
    conns            \* SpecConc: connection -> its call in flight and its transaction

storeVars == <<programs, applicants, applications, durable, call, ncalls, conns>>
vars == <<programs, applicants, applications, durable, call, ncalls,
          pc, cday, rows, prog_info, admitted_global, result, conns>>

\* call.deleted counts the rows the call's DELETE removed; call.repeat says
\* that the call repeats the arguments of the successful call before it.
NoCall == [op |-> "none", program |-> "", day |-> "", df |-> <<>>,
           seats |-> 0, outcome |-> "ok", deleted |-> 0, repeat |-> FALSE]

\* The DatabaseManagers SpecConc opens on the file, and a connection that
\* runs no call and holds no transaction.
Conns == 1..2
ConnIdle == [pc |-> "idle", program_id |-> 0, day |-> "", df |-> <<>>,
             existing |-> {}, i |-> 0, found |-> "no",
             tx |-> "none", view |-> {}, outcome |-> "none"]
NoConns == [c \in Conns |-> ConnIdle]

\* ------------------------------------------------------- programme table
\* SELECT id FROM programs WHERE name=?  (0 stands for None: AUTOINCREMENT
\* ids start at 1).
get_program_id(name) ==
    IF \E i \in 1..Len(programs) : programs[i].name = name
    THEN CHOOSE i \in 1..Len(programs) : programs[i].name = name
    ELSE 0

\* INSERT OR IGNORE INTO programs(name, seats): name is UNIQUE.
InsertOrIgnoreProgram_Overwrite(name, seats) ==
    IF get_program_id(name) # 0
    THEN [programs EXCEPT ![get_program_id(name)].seats = seats]
    ELSE Append(programs, [name |-> name, seats |-> seats])
InsertOrIgnoreProgram(name, seats) ==
    IF get_program_id(name) # 0 THEN programs
    ELSE Append(programs, [name |-> name, seats |-> seats])

\* add_program: the insert, then commit of everything the connection holds.
add_program(name, seats) ==
    /\ pc # "loop"
    /\ pc' = "idle"
    /\ programs' = InsertOrIgnoreProgram(name, seats)
    /\ durable' = applications
    /\ call' = [NoCall EXCEPT !.op = "add_program", !.program = name,
                              !.seats = seats]
    /\ UNCHANGED <<applicants, applications, ncalls, conns>>
    /\ UNCHANGED <<cday, rows, prog_info, admitted_global, result>>

\* ------------------------------------------------------- reconciliation
\* if not program_id: raise ValueError
ProgramMissing_Never(program_id) == FALSE
ProgramMissing(program_id) == program_id = 0

\* df['ID'].astype(int) fails when one ID cell is malformed.
AstypeIntOk(df) == \A i \in 1..Len(df) : IsInt(df[i].ID)

\* df['ID'].astype(int).unique().tolist()
ApplicantIdsOf(df) == {IntCast(df[i].ID) : i \in 1..Len(df)}

\* The eight int() conversions at the head of the loop body succeed.
RowOk(r) ==
    /\ IsInt(r.ID) /\ IsInt(r.Consent) /\ IsInt(r.Priority) /\ IsInt(r.Physics)
    /\ IsInt(r.Russian) /\ IsInt(r.Math) /\ IsInt(r.Achievements)
    /\ IsInt(r.Total)

\* Number of rows the loop handles before a conversion raises (all of them
\* when none does).
RowsBeforeError(df) ==
    IF \A i \in 1..Len(df) : RowOk(df[i]) THEN Len(df)
    ELSE (CHOOSE i \in 1..Len(df) :
              /\ ~RowOk(df[i])
              /\ \A j \in 1..(i - 1) : RowOk(df[j])) - 1

\* INSERT OR IGNORE INTO applicants(id) VALUES (?), for every id of the list.
InsertOrIgnoreApplicants_Replace(ids) == ids
InsertOrIgnoreApplicants(ids) == applicants \cup ids

\* SELECT applicant_id FROM applications WHERE program_id=? AND day=?
StoredIds(apps, pid, day) ==
    {a.applicant_id : a \in {b \in apps : b.program_id = pid /\ b.day = day}}

\* to_delete = existing - incoming, and the DELETE of those rows.
DeleteMissing_AllDays(apps, pid, day, incoming) ==
    {a \in apps : ~(a.program_id = pid /\ a.applicant_id \notin incoming)}
DeleteMissing_Nothing(apps, pid, day, incoming) == apps
DeleteMissing(apps, pid, day, incoming) ==
    {a \in apps :
        ~(a.program_id = pid /\ a.day = day
          /\ a.applicant_id \in (StoredIds(apps, pid, day) \ incoming))}

\* The application row a dataframe row is stored as.
AppRecord(pid, day, r) ==
    [applicant_id |-> IntCast(r.ID), program_id |-> pid, day |-> day,
     consent |-> IntCast(r.Consent), priority |-> IntCast(r.Priority),
     physics |-> IntCast(r.Physics), russian |-> IntCast(r.Russian),
     math |-> IntCast(r.Math), achievements |-> IntCast(r.Achievements),
     total |-> IntCast(r.Total)]

SameKey(a, aid, pid, day) ==
    a.applicant_id = aid /\ a.program_id = pid /\ a.day = day

\* One loop iteration: SELECT the row of (program, day, applicant); UPDATE
\* its seven value columns when it exists, INSERT a new row otherwise.
Upsert_InsertOnly(apps, pid, day, r) == apps \cup {AppRecord(pid, day, r)}
Upsert(apps, pid, day, r) ==
    {a \in apps : ~SameKey(a, IntCast(r.ID), pid, day)}
        \cup {AppRecord(pid, day, r)}

\* The loop over df.iterrows(), first n rows, in order.
RECURSIVE UpsertRows(_, _, _, _, _)
UpsertRows(apps, pid, day, df, n) ==
    IF n = 0 THEN apps
    ELSE Upsert(UpsertRows(apps, pid, day, df, n - 1), pid, day, df[n])

\* The statements of load_list_from_dataframe on the applications table:
\* the DELETE of the missing ids, then the loop over the first n rows.
ReconcileRows_DeleteLast(apps, pid, day, df, n) ==
    {a \in UpsertRows(apps, pid, day, df, n) :
        ~(a.program_id = pid /\ a.day = day
          /\ a.applicant_id \in StoredIds(apps, pid, day))}
ReconcileRows(apps, pid, day, df, n) ==
    UpsertRows(DeleteMissing(apps, pid, day, ApplicantIdsOf(df)), pid, day, df, n)

\* How the call ends.
Outcome(program_name, df) ==
    IF ProgramMissing(get_program_id(program_name)) THEN "unknown_program"
    ELSE IF ~AstypeIntOk(df) THEN "malformed_id"
    ELSE IF RowsBeforeError(df) < Len(df) THEN "malformed_row"
    ELSE "ok"

\* load_list_from_dataframe(program_name, day, df).
\*   unknown_program: raised before any statement runs.
\*   malformed_id:    astype(int) raises before any statement runs.
\*   malformed_row:   the applicants are inserted and committed (line 182,
\*                    which commits whatever the connection held); the
\*                    DELETE and the rows before the bad one are executed,
\*                    then int() raises: no commit and no rollback, so the
\*                    connection keeps reading its uncommitted changes.
\*   ok:              everything is executed and committed (line 246).
load_list_from_dataframe(program_name, day, df) ==
    LET program_id == get_program_id(program_name)
        outcome == Outcome(program_name, df)
        ran == outcome \in {"malformed_row", "ok"}
        after == ReconcileRows(applications, program_id, day, df,
                               RowsBeforeError(df))
    IN  /\ pc # "loop"
        /\ pc' = "idle"
        /\ ncalls < MaxCalls
        /\ ncalls' = ncalls + 1
        /\ applicants' = IF ran THEN InsertOrIgnoreApplicants(ApplicantIdsOf(df))
                         ELSE applicants
        /\ applications' = IF ran THEN after ELSE applications
        /\ durable' = CASE outcome = "ok" -> after
                         [] outcome = "malformed_row" -> applications
                         [] OTHER -> durable
        /\ call' = [op |-> "load_list", program |-> program_name, day |-> day,
                    df |-> df, seats |-> 0, outcome |-> outcome,
                    deleted |-> IF ran
                                THEN Cardinality(StoredIds(applications, program_id, day)
                                                 \ ApplicantIdsOf(df))
                                ELSE 0,
                    repeat |-> /\ call.op = "load_list" /\ call.outcome = "ok"
                               /\ call.program = program_name /\ call.day = day
                               /\ call.df = df]
        /\ UNCHANGED <<programs, conns>>
        /\ UNCHANGED <<cday, rows, prog_info, admitted_global, result>>

\* ------------------------------------------------- compute_passing_scores
NoProgInfo == [pid \in {} |-> <<>>]
NoResult == [name \in {} |-> 0]

\* SELECT applicant_id, program_id, priority, total FROM applications
\* WHERE day = ? AND consent = 1
Selected_AnyDay(day) ==
    {[applicant_id |-> a.applicant_id, program_id |-> a.program_id,
      priority |-> a.priority, total |-> a.total] :
        a \in {b \in applications : b.consent = 1}}
Selected_AnyConsent(day) ==
    {[applicant_id |-> a.applicant_id, program_id |-> a.program_id,
      priority |-> a.priority, total |-> a.total] :
        a \in {b \in applications : b.day = day}}
Selected(day) ==
    {[applicant_id |-> a.applicant_id, program_id |-> a.program_id,
      priority |-> a.priority, total |-> a.total] :
        a \in {b \in applications : b.day = day /\ b.consent = 1}}

\* ORDER BY priority ASC, total DESC: r1 must come before r2.
OrderedBefore_Unordered(r1, r2) == FALSE
OrderedBefore_PriorityDesc(r1, r2) ==
    \/ r1.priority > r2.priority
    \/ r1.priority = r2.priority /\ r1.total > r2.total
OrderedBefore_TotalAsc(r1, r2) ==
    \/ r1.priority < r2.priority
    \/ r1.priority = r2.priority /\ r1.total < r2.total
OrderedBefore_TotalOnly(r1, r2) == r1.total > r2.total
OrderedBefore(r1, r2) ==
    \/ r1.priority < r2.priority
    \/ r1.priority = r2.priority /\ r1.total > r2.total

\* The orders fetchall() may return the selected rows in: every order the
\* ORDER BY allows (SQL leaves the order of rows with equal keys open).
Fetches(day) ==
    LET S == Selected(day)
        n == Cardinality(S)
    IN  {s \in [1..n -> S] :
            /\ \A i, j \in 1..n : i # j => s[i] # s[j]
            /\ \A i, j \in 1..n : i < j => ~OrderedBefore(s[j], s[i])}

\* if len(info['admitted']) >= info['seats']: continue
ProgrammeFull_OneEarly(pid) == Len(prog_info[pid]) + 1 >= programs[pid].seats
ProgrammeFull_OffByOne(pid) == Len(prog_info[pid]) > programs[pid].seats
ProgrammeFull(pid) == Len(prog_info[pid]) >= programs[pid].seats

\* if applicant_id in admitted_global: continue
AlreadyAdmitted_Never(applicant_id) == FALSE
AlreadyAdmitted(applicant_id) == applicant_id \in admitted_global

\* The row is admitted: none of the three `continue`s is taken.
Admits(r) ==
    /\ r.program_id \in DOMAIN prog_info
    /\ ~ProgrammeFull(r.program_id)
    /\ ~AlreadyAdmitted(r.applicant_id)

\* Lines 330-354: fetch the programmes and the day's consenting rows.
ComputeStart(day) ==
    /\ pc # "loop"
    /\ pc' = "loop"
    /\ cday' = day
    /\ prog_info' = [pid \in 1..Len(programs) |-> <<>>]
    /\ rows' \in Fetches(day)
    /\ admitted_global' = {}
    /\ result' = NoResult
    /\ UNCHANGED storeVars

\* Lines 355-367: one iteration of the allocation loop.
ComputeStep ==
    /\ pc = "loop"
    /\ rows # <<>>
    /\ LET r == Head(rows)
       IN  IF Admits(r)
           THEN /\ prog_info' = [prog_info EXCEPT ![r.program_id] =
                                    Append(@, <<r.applicant_id, r.total>>)]
                /\ admitted_global' = admitted_global \cup {r.applicant_id}
           ELSE UNCHANGED <<prog_info, admitted_global>>
    /\ rows' = Tail(rows)
    /\ UNCHANGED <<pc, cday, result>>
    /\ UNCHANGED storeVars

\* key=lambda x: (-x[1], x[0]): e1 sorts before e2.
SortsBefore(e1, e2) == e1[2] > e2[2] \/ (e1[2] = e2[2] /\ e1[1] < e2[1])

\* sorted(info['admitted'], key=...): the entries hold distinct ids, so the
\* key orders them totally.
SortedAdmitted_AdmissionOrder(admitted) == admitted
SortedAdmitted(admitted) ==
    LET n == Len(admitted)
    IN  CHOOSE s \in [1..n -> {admitted[i] : i \in 1..n}] :
            /\ \A i, j \in 1..n : i # j => s[i] # s[j]
            /\ \A i, j \in 1..n : i < j => SortsBefore(s[i], s[j])

\* Lines 372-376: the passing score, or the marker.
PassingScore_NoZeroCheck(admitted_list, seats) ==
    IF Len(admitted_list) >= seats
    THEN [nedobor |-> FALSE,
          score |-> IF seats > 0 THEN admitted_list[seats][2] ELSE 0]
    ELSE [nedobor |-> TRUE, score |-> 0]
PassingScore_First(admitted_list, seats) ==
    IF Len(admitted_list) >= seats /\ seats > 0
    THEN [nedobor |-> FALSE, score |-> admitted_list[1][2]]
    ELSE [nedobor |-> TRUE, score |-> 0]
PassingScore(admitted_list, seats) ==
    IF Len(admitted_list) >= seats /\ seats > 0
    THEN [nedobor |-> FALSE, score |-> admitted_list[seats][2]]
    ELSE [nedobor |-> TRUE, score |-> 0]

\* Lines 368-381: the result mapping, returned.
ComputeFinish ==
    /\ pc = "loop"
    /\ rows = <<>>
    /\ pc' = "done"
    /\ result' =
          [name \in {programs[pid].name : pid \in DOMAIN prog_info} |->
              LET pid == get_program_id(name)
                  admitted_list == SortedAdmitted(prog_info[pid])
              IN  [passing_score |-> PassingScore(admitted_list, programs[pid].seats),
                   admitted |-> [i \in 1..Len(admitted_list) |-> admitted_list[i][1]]]]
    /\ UNCHANGED <<cday, rows, prog_info, admitted_global>>
    /\ UNCHANGED storeVars

\* ---------------------------------------------------------- specification
Init ==
    /\ programs = <<>>
    /\ applicants = {}
    /\ applications = {}
    /\ durable = {}
    /\ call = NoCall
    /\ ncalls = 0
    /\ pc = "idle"
    /\ cday = ""
    /\ rows = <<>>
    /\ prog_info = NoProgInfo
    /\ admitted_global = {}
    /\ result = NoResult
    /\ conns = NoConns

Next ==
    \/ \E name \in ProgramNames, seats \in SeatChoices : add_program(name, seats)
    \/ \E name \in ProgramNames, day \in Days, df \in DataFrames :
            load_list_from_dataframe(name, day, df)

Spec == Init /\ [][Next]_vars

\* ------------------------------------------- the cascade pass on any store
\* Priorities and totals of the stored applications SpecAlloc starts from.
Priorities == 1..2
Totals == 1..2
AllocDay == "01.08"

StoredApp(aid, pid, consent, priority, total) ==
    [applicant_id |-> aid, program_id |-> pid, day |-> AllocDay,
     consent |-> consent, priority |-> priority,
     physics |-> total, russian |-> 0, math |-> 0, achievements |-> 0,
     total |-> total]

\* What a store may hold for one (applicant, programme): nothing (0), a
\* consenting application of any priority and total, or a non-consenting
\* application of the first priority and the highest total.
KeyOptions ==
    {<<0, 0, 0>>} \cup {<<0, 1, 2>>}
        \cup {<<1, p, t>> : p \in Priorities, t \in Totals}

\* The stores of at most MaxApps applications, one per (applicant,
\* programme), as reconciliations of the two registered programmes build.
Stores ==
    LET Keys == ApplicantIds \X (1..2)
        Held(f) == {k \in Keys : f[k] # <<0, 0, 0>>}
    IN  {{StoredApp(k[1], k[2], f[k][1], f[k][2], f[k][3]) : k \in Held(f)} :
            f \in {g \in [Keys -> KeyOptions] : Cardinality(Held(g)) <= MaxApps}}

InitAlloc ==
    /\ programs \in {<<[name |-> "ProgA", seats |-> sa],
                       [name |-> "ProgB", seats |-> sb]>> :
                          sa \in 0..MaxSeats, sb \in SeatChoices}
    /\ applications \in Stores
    /\ applicants = {a.applicant_id : a \in applications}
    /\ durable = applications
    /\ call = NoCall
    /\ ncalls = 0
    /\ pc = "idle"
    /\ cday = ""
    /\ rows = <<>>
    /\ prog_info = NoProgInfo
    /\ admitted_global = {}
    /\ result = NoResult
    /\ conns = NoConns

NextAlloc ==
    \/ \E day \in Days : ComputeStart(day)
    \/ ComputeStep
    \/ ComputeFinish

SpecAlloc == InitAlloc /\ [][NextAlloc]_vars

\* ------------------------------------- two connections on one database file
\* SpecConc runs load_list_from_dataframe on two DatabaseManagers of one
\* file (sqlite3.connect, line 42: default isolation level, default
\* timeout), one statement per step.  durable and applicants are the
\* committed tables, which is all a connection without a write transaction
\* reads; conns[c].tx is the transaction of connection c:
\*   "none"  - no transaction open;
\*   "write" - the implicit BEGIN before an INSERT/UPDATE/DELETE was taken
\*             and the connection holds the file's write lock; conns[c].view
\*             is the applications table with its uncommitted changes;
\*   "open"  - the implicit BEGIN was taken and the statement then timed out
\*             on the lock held by the other connection.
\* The variables applications and call belong to the single connection of
\* Spec and stay unused here.
ConcDays == {AllocDay}

\* The applications table as connection c reads it.
View(c) == IF conns[c].tx = "write" THEN conns[c].view ELSE durable

\* No other connection holds the write lock.
LockFree(c) == \A d \in Conns \ {c} : conns[d].tx # "write"

\* Connection c can execute an INSERT/UPDATE/DELETE now.
CanWrite(c) == conns[c].tx = "write" \/ LockFree(c)

\* The call of connection c returns or raises: its locals are dropped, its
\* arguments and its transaction stay.
Ended(c, outcome) ==
    [conns[c] EXCEPT !.pc = "idle", !.existing = {}, !.i = 0, !.found = "no",
                     !.outcome = outcome]

\* Connection c commits newapps.  The other connection may stand between the
\* SELECT of a row's id and its UPDATE ... WHERE id=?: when the commit
\* removed that row, the id it holds matches no row any more.
Committed(c, rec, newapps) ==
    [d \in Conns |->
        IF d = c THEN [rec EXCEPT !.tx = "none", !.view = {}]
        ELSE IF /\ conns[d].pc = "write" /\ conns[d].found = "yes"
                /\ conns[d].tx # "write"
                /\ ~\E a \in newapps :
                       SameKey(a, IntCast(conns[d].df[conns[d].i].ID),
                               conns[d].program_id, conns[d].day)
             THEN [conns[d] EXCEPT !.found = "gone"]
             ELSE conns[d]]

\* Lines 173-179: the programme look-up and astype(int); nothing is written.
LoadBegin(c, program_name, day, df) ==
    LET program_id == get_program_id(program_name)
    IN  /\ conns[c].pc = "idle"
        /\ conns[c].tx # "open"
        /\ ncalls < MaxCalls
        /\ ncalls' = ncalls + 1
        /\ conns' = [conns EXCEPT ![c] =
              IF ProgramMissing(program_id)
              THEN Ended(c, "unknown_program")
              ELSE IF ~AstypeIntOk(df)
              THEN Ended(c, "malformed_id")
              ELSE [conns[c] EXCEPT !.pc = "applicants", !.program_id = program_id,
                                    !.day = day, !.df = df, !.i = 1,
                                    !.outcome = "running"]]
        /\ UNCHANGED <<programs, applicants, applications, durable, call>>
        /\ UNCHANGED <<pc, cday, rows, prog_info, admitted_global, result>>

\* Lines 180-181: the INSERT OR IGNOREs into applicants take the write lock
\* (none is executed for an empty list).
InsertApplicants(c) ==
    /\ conns[c].pc = "applicants"
    /\ ApplicantIdsOf(conns[c].df) # {} => CanWrite(c)
    /\ conns' = [conns EXCEPT ![c] =
          IF ApplicantIdsOf(conns[c].df) = {}
          THEN [conns[c] EXCEPT !.pc = "commit_applicants"]
          ELSE [conns[c] EXCEPT !.pc = "commit_applicants", !.tx = "write",
                                !.view = View(c)]]
    /\ UNCHANGED <<programs, applicants, applications, durable, call, ncalls>>
    /\ UNCHANGED <<pc, cday, rows, prog_info, admitted_global, result>>

\* Line 182: commit() of everything the connection's transaction holds.
CommitApplicants(c) ==
    /\ conns[c].pc = "commit_applicants"
    /\ applicants' = applicants \cup ApplicantIdsOf(conns[c].df)
    /\ durable' = View(c)
    /\ conns' = Committed(c, [conns[c] EXCEPT !.pc = "existing"], View(c))
    /\ UNCHANGED <<programs, applications, call, ncalls>>
    /\ UNCHANGED <<pc, cday, rows, prog_info, admitted_global, result>>

\* Lines 185-186: existing = the ids stored for (program, day).
ReadExisting(c) ==
    /\ conns[c].pc = "existing"
    /\ conns' = [conns EXCEPT ![c] =
          [conns[c] EXCEPT !.pc = "delete",
                           !.existing = StoredIds(View(c), conns[c].program_id,
                                                  conns[c].day)]]
    /\ UNCHANGED <<programs, applicants, applications, durable, call, ncalls>>
    /\ UNCHANGED <<pc, cday, rows, prog_info, admitted_global, result>>

\* Lines 190-195: the DELETE of to_delete = existing - incoming, by
\* (program_id, day, applicant_id); not executed when to_delete is empty.
DeleteStep(c) ==
    LET to_delete == conns[c].existing \ ApplicantIdsOf(conns[c].df)
    IN  /\ conns[c].pc = "delete"
        /\ to_delete # {} => CanWrite(c)
        /\ conns' = [conns EXCEPT ![c] =
              IF to_delete = {}
              THEN [conns[c] EXCEPT !.pc = "row"]
              ELSE [conns[c] EXCEPT !.pc = "row", !.tx = "write",
                       !.view = {a \in View(c) :
                                    ~(/\ a.program_id = conns[c].program_id
                                      /\ a.day = conns[c].day
                                      /\ a.applicant_id \in to_delete)}]]
        /\ UNCHANGED <<programs, applicants, applications, durable, call, ncalls>>
        /\ UNCHANGED <<pc, cday, rows, prog_info, admitted_global, result>>

\* Lines 198-213: the next iteration converts its row, which may raise, and
\* SELECTs the id of the stored row; after the last row the loop is left.
RowStep(c) ==
    LET i == conns[c].i
        df == conns[c].df
    IN  /\ conns[c].pc = "row"
        /\ conns' = [conns EXCEPT ![c] =
              IF i > Len(df)
              THEN [conns[c] EXCEPT !.pc = "commit"]
              ELSE IF ~RowOk(df[i])
              THEN Ended(c, "malformed_row")
              ELSE [conns[c] EXCEPT !.pc = "write",
                       !.found = IF \E a \in View(c) :
                                        SameKey(a, IntCast(df[i].ID),
                                                conns[c].program_id, conns[c].day)
                                 THEN "yes" ELSE "no"]]
        /\ UNCHANGED <<programs, applicants, applications, durable, call, ncalls>>
        /\ UNCHANGED <<pc, cday, rows, prog_info, admitted_global, result>>

\* Lines 214-245: UPDATE ... WHERE id=? of the row found (no row when that id
\* is gone), or INSERT, which the UNIQUE constraint refuses when the other
\* connection has committed a row of the key since the SELECT.
WriteStep(c) ==
    LET r == conns[c].df[conns[c].i]
        pid == conns[c].program_id
        day == conns[c].day
        stored == \E a \in View(c) : SameKey(a, IntCast(r.ID), pid, day)
    IN  /\ conns[c].pc = "write"
        /\ CanWrite(c)
        /\ conns' = [conns EXCEPT ![c] =
              IF conns[c].found = "no" /\ stored
              THEN [Ended(c, "integrity_error") EXCEPT !.tx = "write", !.view = View(c)]
              ELSE [conns[c] EXCEPT !.pc = "row", !.i = @ + 1, !.found = "no",
                       !.tx = "write",
                       !.view = IF conns[c].found = "gone" THEN View(c)
                                ELSE Upsert(View(c), pid, day, r)]]
        /\ UNCHANGED <<programs, applicants, applications, durable, call, ncalls>>
        /\ UNCHANGED <<pc, cday, rows, prog_info, admitted_global, result>>

\* Line 246: the final commit(); the call returns.
CommitStep(c) ==
    /\ conns[c].pc = "commit"
    /\ durable' = View(c)
    /\ conns' = Committed(c, Ended(c, "ok"), View(c))
    /\ UNCHANGED <<programs, applicants, applications, call, ncalls>>
    /\ UNCHANGED <<pc, cday, rows, prog_info, admitted_global, result>>

\* The statement of connection c needs the write lock, the other connection
\* keeps it for the five seconds of the timeout: sqlite3.OperationalError
\* (database is locked).  The call ends; the BEGIN taken stays open.
LockTimeout(c) ==
    /\ \/ conns[c].pc = "applicants" /\ ApplicantIdsOf(conns[c].df) # {}
       \/ conns[c].pc = "delete"
            /\ conns[c].existing \ ApplicantIdsOf(conns[c].df) # {}
       \/ conns[c].pc = "write"
    /\ ~CanWrite(c)
    /\ conns' = [conns EXCEPT ![c] = [Ended(c, "locked") EXCEPT !.tx = "open"]]
    /\ UNCHANGED <<programs, applicants, applications, durable, call, ncalls>>
    /\ UNCHANGED <<pc, cday, rows, prog_info, admitted_global, result>>

\* The programme ProgA is registered (main.py), the tables are empty.
InitConc ==
    /\ programs = <<[name |-> "ProgA", seats |-> 1]>>
    /\ applicants = {}
    /\ applications = {}
    /\ durable = {}
    /\ call = NoCall
    /\ ncalls = 0
    /\ pc = "idle"
    /\ cday = ""
    /\ rows = <<>>
    /\ prog_info = NoProgInfo
    /\ admitted_global = {}
    /\ result = NoResult
    /\ conns = NoConns

NextConc ==
    \E c \in Conns :
        \/ \E name \in ProgramNames, day \in ConcDays, df \in DataFrames :
               LoadBegin(c, name, day, df)
        \/ InsertApplicants(c)
        \/ CommitApplicants(c)
        \/ ReadExisting(c)
        \/ DeleteStep(c)
        \/ RowStep(c)
        \/ WriteStep(c)
        \/ CommitStep(c)
        \/ LockTimeout(c)

SpecConc == InitConc /\ [][NextConc]_vars

\* ------------------------------------------- loads and passes on one store
\* SpecDay runs load_list_from_dataframe and compute_passing_scores on one
\* DatabaseManager whose two programmes are registered (main.py), starting
\* from the empty tables: a pass for one day before and after loads for the
\* same and for the other day.
InitDay ==
    /\ programs = <<[name |-> "ProgA", seats |-> 1],
                    [name |-> "ProgB", seats |-> MaxSeats]>>
    /\ applicants = {}
    /\ applications = {}
    /\ durable = {}
    /\ call = NoCall
    /\ ncalls = 0
    /\ pc = "idle"
    /\ cday = ""
    /\ rows = <<>>
    /\ prog_info = NoProgInfo
    /\ admitted_global = {}
    /\ result = NoResult
    /\ conns = NoConns

NextDay ==
    \/ \E name \in ProgramNames, day \in Days, df \in DataFrames :
            load_list_from_dataframe(name, day, df)
    \/ \E day \in Days : ComputeStart(day)
    \/ ComputeStep
    \/ ComputeFinish

SpecDay == InitDay /\ [][NextDay]_vars

\* ------------------------------------------------------------------ claims
\* Names used by the statements about a returned result.
SeatsOf(name) == programs[get_program_id(name)].seats
AdmittedTo(name) == {result[name].admitted[i] : i \in 1..Len(result[name].admitted)}
AdmittedAnywhere(aid) == \E name \in DOMAIN result : aid \in AdmittedTo(name)
\* The stored applications of the computed day that carry consent.
Consenting == {a \in applications : a.day = cday /\ a.consent = 1}
NameOf(a) == programs[a.program_id].name

\* C1 - global exclusivity: in a returned result no applicant id is in the
\* admitted lists of two different programmes.
C1_GlobalExclusivity ==
    pc = "done" =>
        \A n1, n2 \in DOMAIN result :
            n1 # n2 => AdmittedTo(n1) \cap AdmittedTo(n2) = {}

\* C1 witness: an admitted applicant also holds a consenting application to
\* another programme that still has a free seat.
C1_Witness ==
    /\ pc = "done"
    /\ \E a, b \in Consenting :
           /\ a.applicant_id = b.applicant_id
           /\ a.program_id # b.program_id
           /\ a.applicant_id \in AdmittedTo(NameOf(a))
           /\ Len(result[NameOf(b)].admitted) < SeatsOf(NameOf(b))

\* C2 - capacity bound: at every step of the pass the running admitted list
\* of a programme with a non-negative quota has at most seats entries, and
\* so has its admitted list in the returned result.
C2_CapacityBound ==
    /\ \A pid \in DOMAIN prog_info :
           programs[pid].seats >= 0 => Len(prog_info[pid]) <= programs[pid].seats
    /\ pc = "done" =>
           \A name \in DOMAIN result :
               SeatsOf(name) >= 0 => Len(result[name].admitted) <= SeatsOf(name)

\* C2 witness: a programme with seats is full in the result and a consenting
\* applicant to it is admitted nowhere.
C2_Witness ==
    /\ pc = "done"
    /\ \E a \in Consenting :
           /\ SeatsOf(NameOf(a)) >= 1
           /\ Len(result[NameOf(a)].admitted) = SeatsOf(NameOf(a))
           /\ ~AdmittedAnywhere(a.applicant_id)

\* The dataframe row that decides what is stored for an id: its last one.
LastRowOf(df, aid) ==
    df[CHOOSE i \in 1..Len(df) :
           /\ IntCast(df[i].ID) = aid
           /\ \A j \in (i + 1)..Len(df) : IntCast(df[j].ID) # aid]

\* The rows a table holds for one applicant, programme and day.
RowsFor(apps, aid, pid, day) == {a \in apps : SameKey(a, aid, pid, day)}

\* C3 - exact replacement: after a successful load of list L for (P, D) the
\* ids stored for (P, D) are exactly the ids of L, and each id's row carries
\* the values L gives for it (those of the id's last row in L), both as read
\* by the connection and as committed.
C3_ExactReplacement ==
    (call.op = "load_list" /\ call.outcome = "ok") =>
        LET pid == get_program_id(call.program)
        IN  /\ StoredIds(applications, pid, call.day) = ApplicantIdsOf(call.df)
            /\ \A aid \in ApplicantIdsOf(call.df) :
                   RowsFor(applications, aid, pid, call.day)
                       = {AppRecord(pid, call.day, LastRowOf(call.df, aid))}
            /\ durable = applications

\* C3 witness: a successful load of a non-empty list that removed stored
\* ids absent from the list.
C3_Witness ==
    /\ call.op = "load_list" /\ call.outcome = "ok"
    /\ call.deleted > 0
    /\ Len(call.df) > 0

\* C4 - all-or-nothing: a load that fails on a malformed row leaves the
\* applications every later read sees as they were before the call.
C4_AllOrNothing ==
    [][(call'.op = "load_list" /\ call'.outcome = "malformed_row")
          => applications' = applications]_vars

C6_Idempotent ==
    [][(/\ call.op = "load_list" /\ call.outcome = "ok"
        /\ call'.op = "load_list"
        /\ call'.program = call.program /\ call'.day = call.day
        /\ call'.df = call.df)
          => /\ call'.outcome = "ok"
             /\ programs' = programs
             /\ applicants' = applicants
             /\ applications' = applications
             /\ durable' = durable]_vars

\* C6 witness: a non-empty list has been loaded twice in a row.
C6_Witness ==
    /\ call.op = "load_list" /\ call.outcome = "ok"
    /\ call.repeat
    /\ Len(call.df) > 0

\* C7 - unknown programme: a load for a name that is not registered fails
\* and changes no table; no programme is created.
C7_UnknownProgramme ==
    [][(call'.op = "load_list" /\ get_program_id(call'.program) = 0)
          => /\ call'.outcome = "unknown_program"
             /\ programs' = programs
             /\ applicants' = applicants
             /\ applications' = applications
             /\ durable' = durable]_vars

\* C7 witness: a well-formed, non-empty list was refused for an unknown
\* programme.
C7_Witness ==
    /\ call.op = "load_list" /\ call.outcome = "unknown_program"
    /\ Len(call.df) > 0
    /\ AstypeIntOk(call.df)
    /\ RowsBeforeError(call.df) = Len(call.df)

\* C8 - priority precedence: when two consenting applications to the same
\* programme X differ in priority, the one with the higher priority number
\* is not admitted to X while the other applicant is admitted nowhere.
C8_PriorityPrecedence ==
    pc = "done" =>
        \A a, b \in Consenting :
            (/\ a.program_id = b.program_id
             /\ a.priority < b.priority
             /\ b.applicant_id \in AdmittedTo(NameOf(b)))
                => AdmittedAnywhere(a.applicant_id)

\* C8 witness: the first-priority applicant has the lower total and takes
\* the seat of X; the second-priority applicant is admitted nowhere.
C8_Witness ==
    /\ pc = "done"
    /\ \E a, b \in Consenting :
           /\ a.program_id = b.program_id
           /\ a.priority < b.priority
           /\ a.total < b.total
           /\ a.applicant_id \in AdmittedTo(NameOf(a))
           /\ ~AdmittedAnywhere(b.applicant_id)

\* C9 - no less-preferred placement while a more-preferred programme has a
\* seat: if an applicant is admitted through an application of priority p,
\* every programme of a consenting application of theirs with a smaller
\* priority number is full in the result.
C9_PreferredOnlyIfFull ==
    pc = "done" =>
        \A y, x \in Consenting :
            (/\ y.applicant_id \in AdmittedTo(NameOf(y))
             /\ x.applicant_id = y.applicant_id
             /\ x.priority < y.priority)
                => Len(result[NameOf(x)].admitted) = SeatsOf(NameOf(x))

\* C9 witness: an applicant is admitted to their second choice while their
\* first choice, a programme with seats, is full.
C9_Witness ==
    /\ pc = "done"
    /\ \E y, x \in Consenting :
           /\ y.applicant_id \in AdmittedTo(NameOf(y))
           /\ x.applicant_id = y.applicant_id
           /\ x.priority < y.priority
           /\ SeatsOf(NameOf(x)) >= 1

\* C10 - score precedence within a tier: of two consenting applications to
\* the same programme X with the same priority, if the one with the lower
\* total is admitted to X, the applicant with the higher total is admitted
\* too (to X or elsewhere).
C10_ScorePrecedence ==
    pc = "done" =>
        \A a, b \in Consenting :
            (/\ a.program_id = b.program_id
             /\ a.priority = b.priority
             /\ a.total > b.total
             /\ b.applicant_id \in AdmittedTo(NameOf(b)))
                => AdmittedAnywhere(a.applicant_id)

\* C10 witness: the higher total of a tier takes the last seat of X and the
\* lower total of the same tier is admitted nowhere.
C10_Witness ==
    /\ pc = "done"
    /\ \E a, b \in Consenting :
           /\ a.program_id = b.program_id
           /\ a.priority = b.priority
           /\ a.total > b.total
           /\ a.applicant_id \in AdmittedTo(NameOf(a))
           /\ ~AdmittedAnywhere(b.applicant_id)

\* The total of the application that admitted aid to the programme name.
AdmittingTotal(name, aid) ==
    (CHOOSE a \in applications :
        SameKey(a, aid, get_program_id(name), cday)).total

\* C11 - final ordering: every admitted list of a returned result is in
\* descending order of the admitting application's total, and entries of
\* equal total are in ascending order of applicant id, whatever the order
\* in which the pass admitted them.
C11_FinalOrdering ==
    pc = "done" =>
        \A name \in DOMAIN result :
            LET adm == result[name].admitted
            IN  \A i, j \in 1..Len(adm) :
                    i < j =>
                        \/ AdmittingTotal(name, adm[i]) > AdmittingTotal(name, adm[j])
                        \/ /\ AdmittingTotal(name, adm[i]) = AdmittingTotal(name, adm[j])
                           /\ adm[i] < adm[j]

\* C11 witness: a returned list whose order is not the order of admission.
C11_Witness ==
    /\ pc = "done"
    /\ \E name \in DOMAIN result :
           LET pid == get_program_id(name)
           IN  /\ Len(prog_info[pid]) >= 2
               /\ result[name].admitted
                      # [i \in 1..Len(prog_info[pid]) |-> prog_info[pid][i][1]]

\* The totals of the applications that admitted the applicants of name.
AdmittedTotals(name) == {AdmittingTotal(name, aid) : aid \in AdmittedTo(name)}

\* C12 - passing score: a programme of a returned result has a numeric
\* passing score exactly when its quota is positive and its admitted list
\* holds quota entries, and the score is then the smallest total among its
\* admitted applicants; in every other case it carries the marker.
C12_PassingScore ==
    pc = "done" =>
        \A name \in DOMAIN result :
            LET ps == result[name].passing_score
            IN  /\ ~ps.nedobor <=>
                       (SeatsOf(name) > 0
                        /\ Len(result[name].admitted) = SeatsOf(name))
                /\ ~ps.nedobor =>
                       /\ ps.score \in AdmittedTotals(name)
                       /\ \A t \in AdmittedTotals(name) : ps.score <= t

\* C12 witness: a full programme admitted two different totals, and another
\* programme with seats is short of applicants.
C12_Witness ==
    /\ pc = "done"
    /\ \E n1, n2 \in DOMAIN result :
           /\ ~result[n1].passing_score.nedobor
           /\ Cardinality(AdmittedTotals(n1)) = 2
           /\ SeatsOf(n2) > 0
           /\ result[n2].passing_score.nedobor

\* C13 - zero-seat programme: a programme registered with 0 seats admits
\* nobody at any step of the pass, and in the returned result its admitted
\* list is empty and its passing score is the marker.
C13_ZeroSeats ==
    /\ \A pid \in DOMAIN prog_info :
           programs[pid].seats = 0 => prog_info[pid] = <<>>
    /\ pc = "done" =>
           \A name \in DOMAIN result :
               SeatsOf(name) = 0 =>
                   /\ result[name].admitted = <<>>
                   /\ result[name].passing_score.nedobor

\* C13 witness: a consenting applicant of the day applied to the zero-seat
\* programme only and is admitted nowhere.
C13_Witness ==
    /\ pc = "done"
    /\ \E a \in Consenting :
           /\ SeatsOf(NameOf(a)) = 0
           /\ \A b \in Consenting : b.applicant_id = a.applicant_id => b = a
           /\ ~AdmittedAnywhere(a.applicant_id)

\* C14 - consent filter: every applicant admitted to programme X in the
\* result for day D has a stored application (applicant, X, D) with
\* consent = 1; an application with consent = 0 admits nobody to its
\* programme, also when the applicant consents to another programme.
C14_ConsentFilter ==
    pc = "done" =>
        \A name \in DOMAIN result :
            \A aid \in AdmittedTo(name) :
                \E a \in applications :
                    /\ SameKey(a, aid, get_program_id(name), cday)
                    /\ a.consent = 1

\* C14 witness: an applicant holds a non-consenting application to a
\* programme that keeps a free seat, and is admitted to another programme
\* through a consenting application.
C14_Witness ==
    /\ pc = "done"
    /\ \E a \in applications, b \in Consenting :
           /\ a.day = cday /\ a.consent = 0
           /\ Len(result[NameOf(a)].admitted) < SeatsOf(NameOf(a))
           /\ b.applicant_id = a.applicant_id
           /\ b.program_id # a.program_id
           /\ b.applicant_id \in AdmittedTo(NameOf(b))

\* The ids a running admitted list holds, and the rows still to examine.
IdsOf(admitted) == {admitted[i][1] : i \in 1..Len(admitted)}
RowsLeft == {rows[i] : i \in 1..Len(rows)}
IsPrefix(s, t) == Len(s) <= Len(t) /\ \A i \in 1..Len(s) : s[i] = t[i]

\* admitted_global is the disjoint union of the programmes' running lists:
\* the same ids, each of them in one list and once.
DisjointUnion ==
    /\ admitted_global = UNION {IdsOf(prog_info[pid]) : pid \in DOMAIN prog_info}
    /\ \A pid \in DOMAIN prog_info :
           Cardinality(IdsOf(prog_info[pid])) = Len(prog_info[pid])
    /\ \A p1, p2 \in DOMAIN prog_info :
           p1 # p2 => IdsOf(prog_info[p1]) \cap IdsOf(prog_info[p2]) = {}

\* C20 - single pass without backtracking: the pass starts with every
\* consenting application of the day queued once, in non-decreasing order of
\* priority; each iteration examines the first queued row and drops it for
\* good; admitted_global and every programme's list only grow during the
\* pass (a list by appending); and after every step admitted_global is the
\* disjoint union of the programmes' admitted lists.
C20_SinglePass ==
    [][/\ (pc # "loop" /\ pc' = "loop") =>
              /\ RowsLeft' = Selected(cday')
              /\ Len(rows') = Cardinality(Selected(cday'))
       /\ (pc = "loop" /\ pc' = "loop") =>
              /\ rows # <<>> /\ rows' = Tail(rows)
              /\ admitted_global \subseteq admitted_global'
              /\ \A pid \in DOMAIN prog_info :
                     IsPrefix(prog_info[pid], prog_info'[pid])
       /\ (pc = "loop" /\ pc' = "done") =>
              /\ rows = <<>>
              /\ UNCHANGED <<prog_info, admitted_global>>
       /\ \A i, j \in 1..Len(rows') : i < j => rows'[i].priority <= rows'[j].priority
       /\ DisjointUnion']_vars

\* C20 witness: in the middle of a pass somebody has been admitted, a row
\* has been examined and skipped, and the rows of second priority are still
\* to come.
C20_Witness ==
    /\ pc = "loop"
    /\ rows # <<>>
    /\ Head(rows).priority = 2
    /\ admitted_global # {}
    /\ Cardinality(Selected(cday)) > Len(rows) + Cardinality(admitted_global)

\* C17 - re-registration is a no-op: add_program for a name that is already
\* registered raises no error and changes no table the DatabaseManager
\* reads: the programme keeps its id and its seats whatever seats value is
\* passed, and there is still one programme of that name.
C17_ReRegistration ==
    [][(call'.op = "add_program" /\ get_program_id(call'.program) # 0)
          => /\ call'.outcome = "ok"
             /\ programs' = programs
             /\ applicants' = applicants
             /\ applications' = applications
             /\ Cardinality({i \in 1..Len(programs') :
                                 programs'[i].name = call'.program}) = 1]_vars

\* C17 witness: a programme that holds applications was registered again
\* with another seats value.
C17_Witness ==
    /\ call.op = "add_program"
    /\ get_program_id(call.program) # 0
    /\ programs[get_program_id(call.program)].seats # call.seats
    /\ \E a \in applications : a.program_id = get_program_id(call.program)

\* C18 - application uniqueness: the applications table never holds two rows
\* for one (applicant_id, program_id, day), neither as read by the connection
\* nor as committed, also after lists that repeat an applicant id.
C18_ApplicationUnique ==
    \A apps \in {applications, durable} :
        \A a, b \in apps :
            SameKey(a, b.applicant_id, b.program_id, b.day) => a = b

\* C18 witness: a successful load of a list whose two rows carry the same
\* id and different values.
C18_Witness ==
    /\ call.op = "load_list" /\ call.outcome = "ok"
    /\ Len(call.df) = 2
    /\ call.df[1].ID = call.df[2].ID
    /\ call.df[1] # call.df[2]

\* C19 - applicants are append-only and always present: after every call
\* each stored application's applicant id has an applicants row, and no
\* call removes an applicants row, also when the applicant's last
\* application is deleted; loading an id that is already an applicant
\* succeeds.
C19_ApplicantsAppendOnly ==
    [][/\ applicants \subseteq applicants'
       /\ \A a \in applications' \cup durable' : a.applicant_id \in applicants'
       /\ (/\ call'.op = "load_list"
           /\ get_program_id(call'.program) # 0
           /\ AstypeIntOk(call'.df)
           /\ RowsBeforeError(call'.df) = Len(call'.df))
              => call'.outcome = "ok"]_vars

\* C19 witness: a successful load of a non-empty list deleted the last
\* application of an applicant, who is still in the applicants table.
C19_Witness ==
    /\ call.op = "load_list" /\ call.outcome = "ok"
    /\ call.deleted > 0
    /\ Len(call.df) > 0
    /\ \E aid \in applicants : \A a \in applications : a.applicant_id # aid

\* The committed applications of the target of connection c's last call are
\* exactly those of its list: the list's ids, each with the values of its
\* last row in the list.
ExactlyListOf(c) ==
    LET pid == conns[c].program_id
        day == conns[c].day
        df == conns[c].df
    IN  /\ StoredIds(durable, pid, day) = ApplicantIdsOf(df)
        /\ \A aid \in ApplicantIdsOf(df) :
               RowsFor(durable, aid, pid, day) = {AppRecord(pid, day, LastRowOf(df, aid))}

\* C15 - same-target reconciliations are serialized: when the two
\* connections have each completed a load for the same (P, D) successfully,
\* the applications committed for (P, D) are exactly those of one of the two
\* lists.
C15_Serialized ==
    (/\ \A c \in Conns : conns[c].pc = "idle" /\ conns[c].outcome = "ok"
     /\ \A c, d \in Conns : /\ conns[c].program_id = conns[d].program_id
                            /\ conns[c].day = conns[d].day)
        => \E c \in Conns : ExactlyListOf(c)

\* C16 - no torn reads: what the other connection reads for the
\* applications (the committed table) changes only by the final commit of a
\* load, which publishes the whole of that load's transaction; between the
\* start and the final commit of a load a reader sees the table as it was
\* committed before.
C16_NoTornRead ==
    [][durable' # durable =>
          \E c \in Conns : conns[c].pc = "commit" /\ conns'[c].outcome = "ok"]_vars

\* C21 - no wasted seats: in a returned result, when a programme admitted
\* fewer applicants than it has seats, every applicant with a consenting
\* application to it on the computed day is admitted to some programme.
C21_NoWastedSeats ==
    pc = "done" =>
        \A name \in DOMAIN result :
            Len(result[name].admitted) < SeatsOf(name) =>
                \A a \in Consenting :
                    NameOf(a) = name => AdmittedAnywhere(a.applicant_id)

\* C21 witness: a programme keeps a free seat after admitting one of its
\* applicants, and another of its applicants is admitted elsewhere.
C21_Witness ==
    /\ pc = "done"
    /\ \E a, b \in Consenting :
           /\ a.program_id = b.program_id
           /\ a.applicant_id # b.applicant_id
           /\ Len(result[NameOf(a)].admitted) < SeatsOf(NameOf(a))
           /\ a.applicant_id \in AdmittedTo(NameOf(a))
           /\ b.applicant_id \notin AdmittedTo(NameOf(b))
           /\ AdmittedAnywhere(b.applicant_id)

\* The admitted lists the pass builds from the fetched rows rs, examined in
\* order from the lists info and the admitted ids glob.
RECURSIVE PassOver(_, _, _)
PassOver(rs, info, glob) ==
    IF rs = <<>> THEN info
    ELSE LET r == Head(rs)
         IN  IF /\ r.program_id \in DOMAIN info
                /\ Len(info[r.program_id]) < programs[r.program_id].seats
                /\ r.applicant_id \notin glob
             THEN PassOver(Tail(rs),
                           [info EXCEPT ![r.program_id] =
                               Append(@, <<r.applicant_id, r.total>>)],
                           glob \cup {r.applicant_id})
             ELSE PassOver(Tail(rs), info, glob)

\* The result mapping returned for the admitted lists info.
ResultFrom(info) ==
    [name \in {programs[pid].name : pid \in DOMAIN info} |->
        LET pid == get_program_id(name)
            admitted_list == SortedAdmitted(info[pid])
        IN  [passing_score |-> PassingScore(admitted_list, programs[pid].seats),
             admitted |-> [i \in 1..Len(admitted_list) |-> admitted_list[i][1]]]]

\* The results compute_passing_scores(day) can return on the current store:
\* one for each order in which the day's rows may be fetched.
PossibleResults(day) ==
    {ResultFrom(PassOver(s, [pid \in 1..Len(programs) |-> <<>>], {})) :
        s \in Fetches(day)}

\* Day isolation without the claim about a single result: a load for one day
\* leaves the results of every other day as they were, and no step of a
\* pass changes a table.
LoadsAndPassesIsolated ==
    /\ ncalls' # ncalls =>
           \A day \in Days \ {call'.day} :
               PossibleResults(day)' = PossibleResults(day)
    /\ pc' \in {"loop", "done"} /\ <<pc, rows, result>>' # <<pc, rows, result>> =>
           UNCHANGED <<programs, applicants, applications, durable>>

\* C22 as stated - day isolation: the stored programmes and applications of
\* day D fix the result of compute_passing_scores(D) (two stores that agree
\* on them give the same result), a load for another day does not change
\* it, and a pass changes no stored data.
C22_DayIsolation_Stated ==
    [][/\ LoadsAndPassesIsolated
       /\ pc' = "done" => PossibleResults(cday)' = {result'}]_vars

\* C22 as amended - day isolation: the stored programmes and applications
\* of day D fix the results compute_passing_scores(D) can return, one for
\* each order in which the store may return D's rows of equal priority and
\* total; the returned result is one of them; a load for another day does
\* not change them, and a pass changes no stored data.
C22_DayIsolation ==
    [][/\ LoadsAndPassesIsolated
       /\ pc' = "done" => result' \in PossibleResults(cday)']_vars

\* C22 witness: a result for one day that admits an applicant, returned
\* after a successful load for the other day that stored an application of
\* the same applicant.
C22_Witness ==
    /\ pc = "done"
    /\ call.op = "load_list" /\ call.outcome = "ok"
    /\ call.day # cday
    /\ \E name \in DOMAIN result :
           AdmittedTo(name) \cap ApplicantIdsOf(call.df) # {}

====
